---- MODULE Spec2Model ----
(*
  A model of the CodeHawk API client example (src/api/examples/python.py):
  the CodeHawkClient class, its six operations, the shared helper
  _make_request with its failure mapping, and the example entry point main.

  The network, the remote server and the HTTP library (requests) are the
  environment.  One environment behaviour, NetOutcomes, is drawn per request:
  how long the connection and the read phase take, whether the transport
  fails, and otherwise the status and the body text of the response.  The
  library calls the client makes (Session.request, raise_for_status,
  Response.json) are operators over that behaviour.
*)
EXTENDS FiniteSets, Integers, Sequences, TLC

VARIABLES
    api_key,    \* self.api_key
    api_url,    \* self.api_url
    headers,    \* self.session.headers
    call,       \* the client operation last called, with its arguments
    net,        \* what the network did to the request(s) of that call
    sent,       \* the HTTP requests that call put on the wire, in order
    outcome,    \* what the call gave its caller: a value or a raised error
    mainPc,     \* main: position in the example flow
    stdout,     \* main: the lines printed so far
    analysis,   \* main: the local variable analysis
    mainFailed  \* main: the step (1..3) whose failure was caught, 0 if none

vars == <<api_key, api_url, headers, call, net, sent, outcome,
          mainPc, stdout, analysis, mainFailed>>

mainVars == <<mainPc, stdout, analysis, mainFailed>>

\* timeout=30 of the session.request call.
TIMEOUT == 30

----------------------------------------------------------------------------
(* JSON values, as json.loads gives them to Python. *)

NoFields == [k \in {} |-> 0]

JObject(f) == [kind |-> "object", fields |-> f, items |-> <<>>, text |-> ""]
JArray(s) == [kind |-> "array", fields |-> NoFields, items |-> s, text |-> ""]
JString(t) == [kind |-> "string", fields |-> NoFields, items |-> <<>>, text |-> t]
JNumber(t) == [kind |-> "number", fields |-> NoFields, items |-> <<>>, text |-> t]
JNull == [kind |-> "null", fields |-> NoFields, items |-> <<>>, text |-> ""]

\* The place of a value where there is none (an error was raised).
NoValue == [kind |-> "none", fields |-> NoFields, items |-> <<>>, text |-> ""]

\* str(v) of a decoded JSON value, as an f-string renders it.  The
\* values rendered here are scalars or empty containers; the repr of a
\* container with elements is only named by its kind.
PyStr(v) ==
    CASE v.kind = "string" -> v.text
      [] v.kind = "number" -> v.text
      [] v.kind = "null" -> "None"
      [] v.kind = "array" /\ v.items = <<>> -> "[]"
      [] v.kind = "object" /\ DOMAIN v.fields = {} -> "{}"
      [] OTHER -> "<" \o v.kind \o ">"

\* type(v).__name__ of a decoded JSON value.
PyType(v) ==
    CASE v.kind = "string" -> "str"
      [] v.kind = "number" -> "int"
      [] v.kind = "null" -> "NoneType"
      [] v.kind = "array" -> "list"
      [] OTHER -> "dict"

----------------------------------------------------------------------------
(* Exceptions: a class name, str(e), and for an HTTPError its response. *)

NoResponse == [status |-> 0, body |-> "", url |-> ""]

Exc(type, msg) == [type |-> type, msg |-> msg, response |-> NoResponse]

\* The classes an exception of class cls is an instance of (its MRO),
\* as far as the except clauses of the program tell them apart.
Ancestors(cls) ==
    CASE cls = "HTTPError" -> {"HTTPError", "RequestException", "Exception"}
      [] cls = "ConnectionError" ->
            {"ConnectionError", "RequestException", "Exception"}
      [] cls = "SSLError" ->
            {"SSLError", "ConnectionError", "RequestException", "Exception"}
      [] cls = "ConnectTimeout" ->
            {"ConnectTimeout", "ConnectionError", "Timeout",
             "RequestException", "Exception"}
      [] cls = "ReadTimeout" ->
            {"ReadTimeout", "Timeout", "RequestException", "Exception"}
      [] cls = "TooManyRedirects" ->
            {"TooManyRedirects", "RequestException", "Exception"}
      [] cls = "RequestsJSONDecodeError" ->
            {"RequestsJSONDecodeError", "InvalidJSONError", "JSONDecodeError",
             "ValueError", "RequestException", "Exception"}
      [] cls = "JSONDecodeError" ->
            {"JSONDecodeError", "ValueError", "Exception"}
      [] cls = "LocationParseError" ->
            {"LocationParseError", "ValueError", "Exception"}
      [] cls = "KeyError" -> {"KeyError", "LookupError", "Exception"}
      [] OTHER -> {cls, "Exception"}

IsInstance(e, cls) == cls \in Ancestors(e.type)

----------------------------------------------------------------------------
(* Optional arguments: None, or a value. *)

None == [some |-> FALSE, v |-> ""]
Some(x) == [some |-> TRUE, v |-> x]

\* A dict of query parameters, as a set of <<name, value>> pairs.
NoParams == [some |-> FALSE, v |-> {}]
Params(d) == [some |-> TRUE, v |-> d]

\* The json= argument: None, or the request body of analyze_code.
NoData == [code |-> "", language |-> "", context |-> "", options |-> {}]
NoJson == [some |-> FALSE, v |-> NoData]

----------------------------------------------------------------------------
(* The HTTP library and the network. *)

\* requests.Session(): the headers every session starts with.
default_headers ==
    [h \in {"User-Agent", "Accept-Encoding", "Accept", "Connection"} |->
        CASE h = "User-Agent" -> "python-requests"
          [] h = "Accept-Encoding" -> "gzip, deflate"
          [] h = "Accept" -> "*/*"
          [] OTHER -> "keep-alive"]

\* dict.update: the entries of new replace and extend those of old.
Update(old, new) ==
    [h \in DOMAIN old \cup DOMAIN new |->
        IF h \in DOMAIN new THEN new[h] ELSE old[h]]

\* The URL a request is sent to: the query string is appended when the
\* params dict has entries (None and {} add nothing).
PreparedUrl(url, params) ==
    IF params.v = {} THEN url
    ELSE LET p == CHOOSE q \in params.v : TRUE
         IN  url \o "?" \o p[1] \o "=" \o p[2]

\* Response bodies the server may send.
HtmlBody == "<html>502 Bad Gateway</html>"
EmptyObjectBody == "{}"
MessageBody == "{\"message\": \"Invalid language\"}"
NumericMessageBody == "{\"message\": 42}"
ArrayBody == "[]"
StringBody == "\"oops\""
NullBody == "null"
AnalysisBody == "{\"id\": \"abc123\", \"issues\": [{\"severity\": \"warning\"}]}"
NoIssuesBody == "{\"id\": \"abc123\"}"
SuggestionsBody == "{\"suggestions\": []}"
LanguagesBody == "{\"languages\": [\"python\", \"go\"]}"
BadLanguagesBody == "{\"languages\": 42}"

Bodies ==
    {HtmlBody, EmptyObjectBody, MessageBody, NumericMessageBody, ArrayBody,
     StringBody, NullBody, AnalysisBody, NoIssuesBody, SuggestionsBody,
     LanguagesBody, BadLanguagesBody}

\* Bodies any response may carry, whatever its status.
ErrorBodies ==
    {HtmlBody, EmptyObjectBody, MessageBody, NumericMessageBody, ArrayBody,
     StringBody}

\* Bodies that are no JSON text.
NotJson == {HtmlBody}

\* json.loads of a body that is JSON text.
Decoded(body) ==
    CASE body = EmptyObjectBody -> JObject(NoFields)
      [] body = MessageBody ->
            JObject([message |-> JString("Invalid language")])
      [] body = NumericMessageBody -> JObject([message |-> JNumber("42")])
      [] body = ArrayBody -> JArray(<<>>)
      [] body = StringBody -> JString("oops")
      [] body = NullBody -> JNull
      [] body = AnalysisBody ->
            JObject([id |-> JString("abc123"),
                     issues |-> JArray(<<JObject([severity |-> JString("warning")])>>)])
      [] body = NoIssuesBody -> JObject([id |-> JString("abc123")])
      [] body = SuggestionsBody -> JObject([suggestions |-> JArray(<<>>)])
      [] body = LanguagesBody ->
            JObject([languages |-> JArray(<<JString("python"), JString("go")>>)])
      [] body = BadLanguagesBody -> JObject([languages |-> JNumber("42")])
      [] OTHER -> NoValue

Statuses == {200, 201, 300, 400, 401, 403, 404, 429, 500}

Reason(status) ==
    CASE status = 200 -> "OK"
      [] status = 201 -> "Created"
      [] status = 300 -> "Multiple Choices"
      [] status = 400 -> "Bad Request"
      [] status = 401 -> "Unauthorized"
      [] status = 403 -> "Forbidden"
      [] status = 404 -> "Not Found"
      [] status = 429 -> "Too Many Requests"
      [] OTHER -> "Internal Server Error"

\* Transport failures other than timeouts, with the exception class the
\* library raises for each.
Faults == {"dns", "ssl", "redirects", "parse"}

FaultClass(fault) ==
    CASE fault = "dns" -> "ConnectionError"
      [] fault = "ssl" -> "SSLError"
      [] fault = "redirects" -> "TooManyRedirects"
      [] OTHER -> "LocationParseError"

FaultText(fault) ==
    CASE fault = "dns" -> "Failed to resolve 'api.codehawk.dev'"
      [] fault = "ssl" -> "certificate verify failed"
      [] fault = "redirects" -> "Exceeded 30 redirects."
      [] OTHER -> "Failed to parse: location"

\* The JSON decoding error of the installed library version: a
\* RequestException since requests 2.27, a plain ValueError before.
JsonErrors == {"RequestsJSONDecodeError", "JSONDecodeError"}

Quiet == [connectSecs |-> 1, readSecs |-> 1, fault |-> "none",
          status |-> 200, body |-> EmptyObjectBody,
          jsonError |-> "RequestsJSONDecodeError"]

\* What the network may do to one request.
NetOutcomes ==
    {[Quiet EXCEPT !.connectSecs = c, !.readSecs = r] :
        <<c, r>> \in {<<TIMEOUT + 1, 1>>, <<1, TIMEOUT + 1>>, <<TIMEOUT, TIMEOUT>>}}
    \cup {[Quiet EXCEPT !.fault = f] : f \in Faults}
    \cup {[Quiet EXCEPT !.status = s, !.body = b] : s \in Statuses, b \in ErrorBodies}
    \cup {[Quiet EXCEPT !.body = b] : b \in Bodies}
    \cup {[Quiet EXCEPT !.status = s, !.body = b, !.jsonError = j] :
            s \in {200, 300}, b \in NotJson, j \in JsonErrors}

\* Session.request(method, url, params, json, timeout): the request it
\* puts on the wire, and the response or the exception it gives back.
SessionRequest(session_headers, method, url, params, json, timeout, n) ==
    LET request == [method |-> method,
                    url |-> PreparedUrl(url, params),
                    params |-> params.v,
                    json |-> json,
                    headers |-> session_headers,
                    timeout |-> timeout]
        response == [status |-> n.status, body |-> n.body, url |-> request.url]
        raise(e) == [request |-> request, raised |-> TRUE, exc |-> e,
                     response |-> NoResponse]
    IN  IF n.connectSecs > timeout
          THEN raise(Exc("ConnectTimeout", "Connection timed out. (connect timeout=30)"))
        ELSE IF n.fault # "none"
          THEN raise(Exc(FaultClass(n.fault), FaultText(n.fault)))
        ELSE IF n.readSecs > timeout
          THEN raise(Exc("ReadTimeout", "Read timed out. (read timeout=30)"))
        ELSE [request |-> request, raised |-> FALSE, exc |-> Exc("", ""),
              response |-> response]

\* str(e) of the HTTPError raise_for_status raises.
HTTPErrorText(response) ==
    ToString(response.status)
        \o (IF response.status < 500 THEN " Client Error: " ELSE " Server Error: ")
        \o Reason(response.status) \o " for url: " \o response.url

\* A raise_for_status that takes every status but 200 for an error.
raise_for_status_unless_200(response) ==
    IF response.status # 200
      THEN [raised |-> TRUE,
            exc |-> [type |-> "HTTPError", msg |-> HTTPErrorText(response),
                     response |-> response]]
      ELSE [raised |-> FALSE, exc |-> Exc("", "")]

\* A raise_for_status that takes only the 4xx statuses for errors.
raise_for_status_4xx_only(response) ==
    IF 400 <= response.status /\ response.status < 500
      THEN [raised |-> TRUE,
            exc |-> [type |-> "HTTPError", msg |-> HTTPErrorText(response),
                     response |-> response]]
      ELSE [raised |-> FALSE, exc |-> Exc("", "")]

\* Response.raise_for_status(): raises HTTPError, carrying the response,
\* for the statuses 400..599 and for no other.
raise_for_status(response) ==
    IF 400 <= response.status /\ response.status < 600
      THEN [raised |-> TRUE,
            exc |-> [type |-> "HTTPError", msg |-> HTTPErrorText(response),
                     response |-> response]]
      ELSE [raised |-> FALSE, exc |-> Exc("", "")]

\* Response.json(): the decoded body, or the library's decoding error.
ResponseJson(response, jsonError) ==
    IF response.body \in NotJson
      THEN [raised |-> TRUE, value |-> NoValue,
            exc |-> Exc(jsonError, "Expecting value: line 1 column 1 (char 0)")]
      ELSE [raised |-> FALSE, value |-> Decoded(response.body), exc |-> Exc("", "")]

----------------------------------------------------------------------------
(* class CodeHawkClient *)

DefaultApiUrl == "https://api.codehawk.dev/api/v1"

\* A constructor that puts the example's placeholder, not the caller's
\* key, in the X-API-Key header.
CodeHawkClientPlaceholderKey(key, url) ==
    [api_key |-> key,
     api_url |-> url,
     headers |-> Update(default_headers,
                        [h \in {"Content-Type", "Accept", "X-API-Key"} |->
                            CASE h = "Content-Type" -> "application/json"
                              [] h = "Accept" -> "application/json"
                              [] OTHER -> "your-api-key"])]

\* __init__(api_key, api_url): the state of the client it constructs.
CodeHawkClient(key, url) ==
    [api_key |-> key,
     api_url |-> url,
     headers |-> Update(default_headers,
                        [h \in {"Content-Type", "Accept", "X-API-Key"} |->
                            CASE h = "Content-Type" -> "application/json"
                              [] h = "Accept" -> "application/json"
                              [] OTHER -> key])]

\* What a call gives its caller.
Return(value) == [raised |-> FALSE, type |-> "", msg |-> "", value |-> value]
Raise(type, msg) == [raised |-> TRUE, type |-> type, msg |-> msg, value |-> NoValue]

\* The if/elif chain on status_code of the HTTPError handler.
StatusError(status_code, error_message) ==
    IF status_code = 401
      THEN Raise("Exception", "Authentication failed. Please check your API key.")
    ELSE IF status_code = 403
      THEN Raise("Exception",
                 "Access denied. You do not have permission to perform this action.")
    ELSE IF status_code = 404
      THEN Raise("Exception", "The requested resource was not found.")
    ELSE IF status_code = 429
      THEN Raise("Exception", "API rate limit exceeded. Please try again later.")
    ELSE Raise("Exception",
               "API error (" \o ToString(status_code) \o "): " \o error_message)

\* except requests.exceptions.HTTPError as e.  The body is decoded and
\* .get("message", str(e)) is called on the result before the status is
\* looked at; only a ValueError of the decoding is caught there.  An
\* error raised inside this handler is not seen by the except clauses
\* that follow it: it leaves _make_request as it is.
HandleHTTPError(e, jsonError) ==
    IF e.response # NoResponse
      THEN LET status_code == e.response.status
               parsed == ResponseJson(e.response, jsonError)
               error_data == parsed.value
           IN  IF parsed.raised
                 THEN IF IsInstance(parsed.exc, "ValueError")
                        THEN StatusError(status_code, e.msg)
                        ELSE Raise(parsed.exc.type, parsed.exc.msg)
               ELSE IF error_data.kind # "object"
                 THEN Raise("AttributeError",
                            "'" \o PyType(error_data)
                                \o "' object has no attribute 'get'")
               ELSE StatusError(status_code,
                                IF "message" \in DOMAIN error_data.fields
                                  THEN PyStr(error_data.fields["message"])
                                  ELSE e.msg)
      ELSE Raise("Exception", "HTTP error: " \o e.msg)

\* The except clauses of _make_request, tried in the order written: the
\* first one whose class the exception is an instance of handles it.
Handle(e, jsonError) ==
    IF IsInstance(e, "HTTPError")
      THEN HandleHTTPError(e, jsonError)
    ELSE IF IsInstance(e, "ConnectionError")
      THEN Raise("Exception",
                 "Connection error. Please check your network connection.")
    ELSE IF IsInstance(e, "Timeout")
      THEN Raise("Exception", "Request timed out. Please try again later.")
    ELSE IF IsInstance(e, "RequestException")
      THEN Raise("Exception", "Request error: " \o e.msg)
    ELSE IF IsInstance(e, "Exception")
      THEN Raise("Exception", "Unexpected error: " \o e.msg)
    ELSE Raise(e.type, e.msg)

\* The try block of _make_request: one session.request with the fixed
\* timeout, raise_for_status, response.json().
TryBody(self, method, url, params, json, n) ==
    LET r == SessionRequest(self.headers, method, url, params, json, TIMEOUT, n)
        checked == raise_for_status(r.response)
        decoded == ResponseJson(r.response, n.jsonError)
    IN  IF r.raised
          THEN [request |-> r.request, raised |-> TRUE, exc |-> r.exc,
                value |-> NoValue]
        ELSE IF checked.raised
          THEN [request |-> r.request, raised |-> TRUE, exc |-> checked.exc,
                value |-> NoValue]
        ELSE [request |-> r.request, raised |-> decoded.raised,
              exc |-> decoded.exc, value |-> decoded.value]

\* A _make_request that sends the request a second time when the first
\* attempt fails, and reports the second attempt.
_make_request_retrying(self, method, endpoint, params, json, n) ==
    LET url == self.api_url \o endpoint
        t == TryBody(self, method, url, params, json, n)
    IN  [sent |-> IF t.raised THEN <<t.request, t.request>> ELSE <<t.request>>,
         result |-> IF t.raised THEN Handle(t.exc, n.jsonError)
                    ELSE Return(t.value)]

\* _make_request(method, endpoint, params, json): the requests it sends
\* and what it gives its caller.
_make_request(self, method, endpoint, params, json, n) ==
    LET url == self.api_url \o endpoint
        t == TryBody(self, method, url, params, json, n)
    IN  [sent |-> <<t.request>>,
         result |-> IF t.raised THEN Handle(t.exc, n.jsonError)
                    ELSE Return(t.value)]

NoOptions == [some |-> FALSE, v |-> {}]

analyze_code(self, code, language, context, options, n) ==
    LET opts == IF ~options.some THEN {} ELSE options.v
        data == [code |-> code, language |-> language, context |-> context,
                 options |-> opts]
        response == _make_request(self, "POST", "/analyze", NoParams,
                                  [some |-> TRUE, v |-> data], n)
    IN  response

get_analysis(self, analysis_id, n) ==
    _make_request(self, "GET", "/analysis/" \o analysis_id, NoParams, NoJson, n)

\* A get_issues that forwards only the documented severities.
SeverityParamsValidated(severity) ==
    IF severity.some /\ severity.v \in {"error", "warning", "suggestion", "info"}
      THEN {<<"severity", severity.v>>}
      ELSE {}

\* if severity: a severity that is None or empty is falsy.
SeverityParams(severity) ==
    IF severity.some /\ severity.v # ""
      THEN {<<"severity", severity.v>>}
      ELSE {}

get_issues(self, analysis_id, severity, n) ==
    _make_request(self, "GET", "/analysis/" \o analysis_id \o "/issues",
                  Params(SeverityParams(severity)), NoJson, n)

get_suggestions(self, analysis_id, n) ==
    _make_request(self, "GET", "/analysis/" \o analysis_id \o "/suggestions",
                  NoParams, NoJson, n)

get_languages(self, n) ==
    _make_request(self, "GET", "/languages", NoParams, NoJson, n)

get_rules(self, language, n) ==
    _make_request(self, "GET", "/rules/" \o language, NoParams, NoJson, n)

----------------------------------------------------------------------------
(* The callers' inputs. *)

\* The constructor's arguments: the example's (the placeholder key, the
\* default URL), and a caller's own key and URL.
Constructions ==
    {[api_key |-> "your-api-key", api_url |-> DefaultApiUrl],
     [api_key |-> "key-1234", api_url |-> "http://localhost:8080/api/v1"]}
AnalysisIds == {"abc123"}
Languages == {"python", "cobol"}
Codes == {"def f(): pass"}
StrictOptions == [some |-> TRUE, v |-> {<<"strict", "true">>}]

\* analyze_code called with its defaults, and with every argument given.
AnalyzeArgs ==
    {[language |-> "python", context |-> "", options |-> NoOptions],
     [language |-> "cobol", context |-> "unit tests", options |-> StrictOptions]}
Severities == {None, Some(""), Some("error"), Some("bogus")}

NoCall == [op |-> "", analysis_id |-> "", code |-> "", language |-> "",
           context |-> "", options |-> NoOptions, severity |-> None]

Self == [api_key |-> api_key, api_url |-> api_url, headers |-> headers]

\* A client operation was called and came back with r.
Called(c, n, r) ==
    /\ call' = c
    /\ net' = n
    /\ sent' = r.sent
    /\ outcome' = r.result
    /\ UNCHANGED <<api_key, api_url, headers>>

\* The state once CodeHawkClient(key, url) is constructed.
Constructed(key, url) ==
    /\ api_key = CodeHawkClient(key, url).api_key
    /\ api_url = CodeHawkClient(key, url).api_url
    /\ headers = CodeHawkClient(key, url).headers
    /\ call = NoCall
    /\ net = Quiet
    /\ sent = <<>>
    /\ outcome = Return(NoValue)
    /\ mainPc = "start"
    /\ stdout = <<>>
    /\ analysis = NoValue
    /\ mainFailed = 0

Init == \E c \in Constructions : Constructed(c.api_key, c.api_url)

CallAnalyzeCode ==
    /\ \E code \in Codes, a \in AnalyzeArgs, n \in NetOutcomes :
          Called([NoCall EXCEPT !.op = "analyze_code", !.code = code,
                                !.language = a.language, !.context = a.context,
                                !.options = a.options],
                 n, analyze_code(Self, code, a.language, a.context, a.options, n))
    /\ UNCHANGED mainVars

CallGetAnalysis ==
    /\ \E id \in AnalysisIds, n \in NetOutcomes :
          Called([NoCall EXCEPT !.op = "get_analysis", !.analysis_id = id],
                 n, get_analysis(Self, id, n))
    /\ UNCHANGED mainVars

CallGetIssues ==
    /\ \E id \in AnalysisIds, severity \in Severities, n \in NetOutcomes :
          Called([NoCall EXCEPT !.op = "get_issues", !.analysis_id = id,
                                !.severity = severity],
                 n, get_issues(Self, id, severity, n))
    /\ UNCHANGED mainVars

CallGetSuggestions ==
    /\ \E id \in AnalysisIds, n \in NetOutcomes :
          Called([NoCall EXCEPT !.op = "get_suggestions", !.analysis_id = id],
                 n, get_suggestions(Self, id, n))
    /\ UNCHANGED mainVars

CallGetLanguages ==
    /\ \E n \in NetOutcomes :
          Called([NoCall EXCEPT !.op = "get_languages"],
                 n, get_languages(Self, n))
    /\ UNCHANGED mainVars

CallGetRules ==
    /\ \E language \in Languages, n \in NetOutcomes :
          Called([NoCall EXCEPT !.op = "get_rules", !.language = language],
                 n, get_rules(Self, language, n))
    /\ UNCHANGED mainVars

Next ==
    \/ CallAnalyzeCode
    \/ CallGetAnalysis
    \/ CallGetIssues
    \/ CallGetSuggestions
    \/ CallGetLanguages
    \/ CallGetRules

Spec == Init /\ [][Next]_vars

----------------------------------------------------------------------------
(* def main(): the example flow. *)

\* The code main submits.
ExampleCode == "def calculate_sum(numbers): ..."

\* v[key] with a str key.
Subscript(v, key) ==
    IF v.kind = "object"
      THEN IF key \in DOMAIN v.fields
             THEN [raised |-> FALSE, value |-> v.fields[key], exc |-> Exc("", "")]
             ELSE [raised |-> TRUE, value |-> NoValue,
                   exc |-> Exc("KeyError", "'" \o key \o "'")]
      ELSE [raised |-> TRUE, value |-> NoValue,
            exc |-> Exc("TypeError",
                        CASE v.kind = "array" ->
                                "list indices must be integers or slices, not str"
                          [] v.kind = "string" ->
                                "string indices must be integers, not 'str'"
                          [] OTHER ->
                                "'" \o PyType(v) \o "' object is not subscriptable")]

\* len(v).
PyLen(v) ==
    CASE v.kind = "array" -> [raised |-> FALSE, n |-> Len(v.items), exc |-> Exc("", "")]
      [] v.kind = "object" ->
            [raised |-> FALSE, n |-> Cardinality(DOMAIN v.fields), exc |-> Exc("", "")]
      [] v.kind = "string" -> [raised |-> FALSE, n |-> Len(v.text), exc |-> Exc("", "")]
      [] OTHER ->
            [raised |-> TRUE, n |-> 0,
             exc |-> Exc("TypeError",
                         "object of type '" \o PyType(v) \o "' has no len()")]

RECURSIVE JoinItems(_)
JoinItems(items) ==
    IF items = <<>> THEN ""
    ELSE IF Len(items) = 1 THEN items[1].text
    ELSE items[1].text \o ", " \o JoinItems(Tail(items))

\* ', '.join(v), for the values "languages" takes in Bodies: a list,
\* or a value that is not iterable.
Join(v) ==
    IF v.kind = "array"
      THEN IF \A i \in 1..Len(v.items) : v.items[i].kind = "string"
             THEN [raised |-> FALSE, text |-> JoinItems(v.items), exc |-> Exc("", "")]
             ELSE LET i == CHOOSE k \in 1..Len(v.items) :
                               /\ v.items[k].kind # "string"
                               /\ \A j \in 1..(k - 1) : v.items[j].kind = "string"
                  IN  [raised |-> TRUE, text |-> "",
                       exc |-> Exc("TypeError",
                                   "sequence item " \o ToString(i - 1)
                                       \o ": expected str instance, "
                                       \o PyType(v.items[i]) \o " found")]
      ELSE [raised |-> TRUE, text |-> "",
            exc |-> Exc("TypeError", "can only join an iterable")]

\* A handler of main that catches only the errors the client raises
\* itself.
MainCatchesClientErrors(e) == e.type = "Exception"

\* except Exception as e: the classes the handler of main catches.
MainCatches(e) == IsInstance(e, "Exception")

\* A step of main has run: it printed lines, and either completed and
\* main goes on to pc, or raised e, which the except clause of main
\* catches (it prints the error and main returns) or lets through.
MainStep(step, lines, raised, e, pc) ==
    IF ~raised
      THEN /\ stdout' = stdout \o lines
           /\ mainPc' = pc
           /\ mainFailed' = mainFailed
    ELSE IF MainCatches(e)
      THEN /\ stdout' = stdout \o lines \o <<"Error: " \o e.msg>>
           /\ mainPc' = "done"
           /\ mainFailed' = step
    ELSE /\ stdout' = stdout \o lines
         /\ mainPc' = "escaped"
         /\ mainFailed' = mainFailed

AsExc(result) == Exc(result.type, result.msg)

\* The client main constructs: CodeHawkClient(api_key), with the key of
\* the environment or the placeholder, and the default URL.
\* api_key = os.environ.get("CODEHAWK_API_KEY", "your-api-key").
EnvironmentKeys == {"your-api-key", "key-1234"}

InitMain == \E key \in EnvironmentKeys : Constructed(key, DefaultApiUrl)

\* print("Analyzing code..."); analysis = client.analyze_code(code, "python");
\* print the id; print the number of issues.
MainAnalyze ==
    /\ mainPc = "start"
    /\ \E n \in NetOutcomes :
          LET r == analyze_code(Self, ExampleCode, "python", "", NoOptions, n)
              a == r.result.value
              id == Subscript(a, "id")
              issues == Subscript(a, "issues")
              count == PyLen(issues.value)
              l1 == <<"Analyzing code...">>
              l2 == l1 \o <<"Analysis ID: " \o PyStr(id.value)>>
              l3 == l2 \o <<"Found " \o ToString(count.n) \o " issues">>
          IN  /\ Called([NoCall EXCEPT !.op = "analyze_code", !.code = ExampleCode,
                                       !.language = "python"], n, r)
              /\ analysis' = IF r.result.raised THEN analysis ELSE a
              /\ IF r.result.raised THEN MainStep(1, l1, TRUE, AsExc(r.result), "")
                 ELSE IF id.raised THEN MainStep(1, l1, TRUE, id.exc, "")
                 ELSE IF issues.raised THEN MainStep(1, l2, TRUE, issues.exc, "")
                 ELSE IF count.raised THEN MainStep(1, l2, TRUE, count.exc, "")
                 ELSE MainStep(1, l3, FALSE, Exc("", ""), "analyzed")

\* print("Getting suggestions...");
\* suggestions = client.get_suggestions(analysis["id"]); print their number.
MainSuggestions ==
    /\ mainPc = "analyzed"
    /\ \E n \in NetOutcomes :
          LET id == PyStr(Subscript(analysis, "id").value)
              r == get_suggestions(Self, id, n)
              suggestions == Subscript(r.result.value, "suggestions")
              count == PyLen(suggestions.value)
              l1 == <<"Getting suggestions...">>
              l2 == l1 \o <<"Found " \o ToString(count.n) \o " suggestions">>
          IN  /\ Called([NoCall EXCEPT !.op = "get_suggestions",
                                       !.analysis_id = id], n, r)
              /\ UNCHANGED analysis
              /\ IF r.result.raised THEN MainStep(2, l1, TRUE, AsExc(r.result), "")
                 ELSE IF suggestions.raised
                   THEN MainStep(2, l1, TRUE, suggestions.exc, "")
                 ELSE IF count.raised THEN MainStep(2, l1, TRUE, count.exc, "")
                 ELSE MainStep(2, l2, FALSE, Exc("", ""), "suggested")

\* print("Getting supported languages...");
\* languages = client.get_languages(); print them, joined.
MainLanguages ==
    /\ mainPc = "suggested"
    /\ \E n \in NetOutcomes :
          LET r == get_languages(Self, n)
              languages == Subscript(r.result.value, "languages")
              joined == Join(languages.value)
              l1 == <<"Getting supported languages...">>
              l2 == l1 \o <<"Supported languages: " \o joined.text>>
          IN  /\ Called([NoCall EXCEPT !.op = "get_languages"], n, r)
              /\ UNCHANGED analysis
              /\ IF r.result.raised THEN MainStep(3, l1, TRUE, AsExc(r.result), "")
                 ELSE IF languages.raised
                   THEN MainStep(3, l1, TRUE, languages.exc, "")
                 ELSE IF joined.raised THEN MainStep(3, l1, TRUE, joined.exc, "")
                 ELSE MainStep(3, l2, FALSE, Exc("", ""), "done")

NextMain ==
    \/ MainAnalyze
    \/ MainSuggestions
    \/ MainLanguages

SpecMain == InitMain /\ [][NextMain]_vars

----------------------------------------------------------------------------
(* The properties. *)

StartsWith(s, prefix) ==
    Len(s) >= Len(prefix) /\ SubSeq(s, 1, Len(prefix)) = prefix

\* A client operation was called and the server's response arrived.
Responded ==
    /\ call.op # ""
    /\ net.connectSecs <= TIMEOUT
    /\ net.readSecs <= TIMEOUT
    /\ net.fault = "none"

\* The rows of the failure mapping table that hold a fixed string.
FixedMessage(status) ==
    CASE status = 401 -> "Authentication failed. Please check your API key."
      [] status = 403 ->
            "Access denied. You do not have permission to perform this action."
      [] status = 404 -> "The requested resource was not found."
      [] OTHER -> "API rate limit exceeded. Please try again later."

ConnectionMessage == "Connection error. Please check your network connection."
TimeoutMessage == "Request timed out. Please try again later."

\* C1: for a response with status 401, 403, 404 or 429 the raised error
\* message is the fixed string of the mapping table, whatever the body
\* (not JSON, a JSON object with or without "message", a JSON value that
\* is no object).
C1_FixedMessageWhateverBody ==
    (Responded /\ net.status \in {401, 403, 404, 429})
        => (outcome.raised /\ outcome.msg = FixedMessage(net.status))

\* C2: every failure of a client operation reaches the caller as a plain
\* Exception whose message has the form of a row of the failure mapping
\* table; no other exception type leaves _make_request.
C2_OneGenericErrorKind ==
    (call.op # "" /\ outcome.raised)
        => /\ outcome.type = "Exception"
           /\ \/ outcome.msg \in {FixedMessage(401), FixedMessage(403),
                                  FixedMessage(404), FixedMessage(429),
                                  ConnectionMessage, TimeoutMessage}
              \/ StartsWith(outcome.msg,
                            "API error (" \o ToString(net.status) \o "): ")
              \/ StartsWith(outcome.msg, "Request error: ")
              \/ StartsWith(outcome.msg, "Unexpected error: ")

\* C3: for every client operation, a response with a 2xx status and a
\* body that is valid JSON is returned to the caller as the decoded JSON
\* value of the body, and no error is raised.
C3_SuccessReturnsDecodedBody ==
    (Responded /\ net.status \in 200..299 /\ net.body \notin NotJson)
        => (~outcome.raised /\ outcome.value = Decoded(net.body))

C3_Witness ==
    /\ call.op = "get_rules"
    /\ net.status = 201
    /\ net.body = MessageBody
    /\ ~outcome.raised
    /\ outcome.value = JObject([message |-> JString("Invalid language")])

\* C4: for every response with a 4xx/5xx status other than 401, 403, 404
\* and 429 the raised error message is "API error (<status>): <m>", <m>
\* being the body's "message" field when the body is JSON holding that
\* field and the raw HTTP error text when the body is no JSON.
C4_ApiErrorMessage ==
    (Responded /\ net.status \in 400..599 /\ net.status \notin {401, 403, 404, 429})
        => LET prefix == "API error (" \o ToString(net.status) \o "): "
               body == Decoded(net.body)
           IN  /\ outcome.raised
               /\ StartsWith(outcome.msg, prefix)
               /\ (net.body \in NotJson
                     => outcome.msg = prefix
                            \o HTTPErrorText([status |-> net.status,
                                              body |-> net.body,
                                              url |-> sent[1].url]))
               /\ (body.kind = "object" /\ "message" \in DOMAIN body.fields
                     => outcome.msg = prefix \o PyStr(body.fields["message"]))

\* C5: a request that exceeds the 30-second timeout, in the connection
\* phase or in the read phase, raises the timeout message; a connect
\* timeout, which is a timeout and a connection failure at once, too.
C5_TimeoutMessage ==
    (call.op # "" /\ (net.connectSecs > TIMEOUT \/ net.readSecs > TIMEOUT))
        => (outcome.raised /\ outcome.msg = TimeoutMessage)

\* C6: _make_request returns a value only when the status is 2xx: every
\* response with a status outside 200..299 (1xx and 3xx included) raises
\* an error and returns no decoded body.
C6_ReturnsOnly2xx ==
    /\ (call.op # "" /\ ~outcome.raised) => (Responded /\ net.status \in 200..299)
    /\ (Responded /\ net.status \notin 200..299)
          => (outcome.raised /\ outcome.value = NoValue)

\* C6, amended: _make_request returns a value only when the status is
\* outside 400..599: every response with a 4xx or 5xx status raises an
\* error and returns no decoded body, while a response with any other
\* status that the HTTP layer hands back (2xx, but 1xx and 3xx as well)
\* and a valid JSON body is returned decoded.
C6_ReturnsUnlessErrorStatus ==
    /\ (call.op # "" /\ ~outcome.raised)
          => (Responded /\ net.status \notin 400..599)
    /\ (Responded /\ net.status \in 400..599)
          => (outcome.raised /\ outcome.value = NoValue)
    /\ (Responded /\ net.status \notin 400..599 /\ net.body \notin NotJson)
          => (~outcome.raised /\ outcome.value = Decoded(net.body))

C6_Witness ==
    /\ call.op = "get_analysis"
    /\ net.status = 300
    /\ net.body = ArrayBody
    /\ ~outcome.raised
    /\ outcome.value = JArray(<<>>)

IssuesRequestIs(forwarded) ==
    /\ Len(sent) = 1
    /\ sent[1].method = "GET"
    /\ sent[1].params =
          (IF forwarded THEN {<<"severity", call.severity.v>>} ELSE {})
    /\ sent[1].url =
          api_url \o "/analysis/" \o call.analysis_id \o "/issues"
              \o (IF forwarded THEN "?severity=" \o call.severity.v ELSE "")

\* C8: get_issues(id, severity=s) sends GET /analysis/<id>/issues with
\* the query parameter severity=s for every severity the caller supplies,
\* valid or not, the empty string included; the parameter is absent only
\* when the caller supplies no severity.
C8_EverySeverityForwarded ==
    call.op = "get_issues" => IssuesRequestIs(call.severity.some)

\* C8, amended: get_issues(id, severity=s) sends GET /analysis/<id>/issues
\* with the query parameter severity=s for every non-empty severity the
\* caller supplies, valid or not; the parameter is absent when the caller
\* supplies no severity or the empty string.
C8_NonEmptySeverityForwarded ==
    call.op = "get_issues"
        => IssuesRequestIs(call.severity.some /\ call.severity.v # "")

C8_Witness ==
    /\ call.op = "get_issues"
    /\ call.severity = Some("bogus")
    /\ sent[1].params = {<<"severity", "bogus">>}
    /\ sent[1].url = api_url \o "/analysis/abc123/issues?severity=bogus"

\* The step of main that calls op.
StepOf(op) ==
    CASE op = "analyze_code" -> 1
      [] op = "get_suggestions" -> 2
      [] OTHER -> 3

\* The keys main reads from the response of op, in the order it reads
\* them.
KeysRead(op) ==
    CASE op = "analyze_code" -> <<"id", "issues">>
      [] op = "get_suggestions" -> <<"suggestions">>
      [] OTHER -> <<"languages">>

\* The response of the last call is a JSON object that lacks a key main
\* reads from it.
LacksKey(key) ==
    /\ call.op # ""
    /\ ~outcome.raised
    /\ outcome.value.kind = "object"
    /\ \E i \in 1..Len(KeysRead(call.op)) :
          /\ KeysRead(call.op)[i] = key
          /\ key \notin DOMAIN outcome.value.fields
          /\ \A j \in 1..(i - 1) :
                KeysRead(call.op)[j] \in DOMAIN outcome.value.fields

Printed(line) == \E i \in 1..Len(stdout) : stdout[i] = line

\* main caught a failure of the step of the last call, printed
\* "Error: <message>" last, and returned.
CaughtAndReported(message) ==
    /\ mainPc = "done"
    /\ mainFailed = StepOf(call.op)
    /\ stdout # <<>>
    /\ stdout[Len(stdout)] = "Error: " \o message

\* C9: in main, a failure at any step of analyze_code -> get_suggestions
\* -> get_languages (an error the client raises, or a response lacking
\* the key main reads) is caught and printed as "Error: <message>", and
\* main returns normally: no exception leaves main, and the steps after
\* the failing one are not run.
C9_MainReportsEveryFailure ==
    /\ mainPc \in {"start", "analyzed", "suggested", "done"}
    /\ (call.op # "" /\ outcome.raised) => CaughtAndReported(outcome.msg)
    /\ \A key \in {"id", "issues", "suggestions", "languages"} :
          LacksKey(key) => CaughtAndReported("'" \o key \o "'")
    /\ mainFailed # 0 => mainPc = "done"
    /\ mainFailed = 1 => ~Printed("Getting suggestions...")
    /\ mainFailed \in {1, 2} => ~Printed("Getting supported languages...")

C9_Witness ==
    /\ call.op = "get_suggestions"
    /\ LacksKey("suggestions")
    /\ mainPc = "done"
    /\ mainFailed = 2
    /\ stdout[Len(stdout)] = "Error: 'suggestions'"

\* The configuration is the one the constructor set.
ConfigurationAsConstructed ==
    /\ \E c \in Constructions : api_key = c.api_key /\ api_url = c.api_url
    /\ headers["Content-Type"] = "application/json"
    /\ headers["Accept"] = "application/json"
    /\ headers["X-API-Key"] = api_key
    /\ \A i \in 1..Len(sent) :
          /\ sent[i].headers["Content-Type"] = "application/json"
          /\ sent[i].headers["Accept"] = "application/json"
          /\ sent[i].headers["X-API-Key"] = api_key

\* C10: the configuration is set once, at construction: after any
\* sequence of client operations, succeeding or failing, the API key,
\* the base URL and the session's default headers are the ones the
\* constructor set, and every request was sent with the X-API-Key given
\* at construction.
C10_ConfigurationSetOnce ==
    /\ []ConfigurationAsConstructed
    /\ [][api_key' = api_key /\ api_url' = api_url /\ headers' = headers]_vars

C10_Witness ==
    /\ api_key = "key-1234"
    /\ call.op = "analyze_code"
    /\ outcome.raised
    /\ outcome.msg = FixedMessage(401)
    /\ sent[1].headers["X-API-Key"] = "key-1234"

====
